---- MODULE Spec2Model ----
(***************************************************************************)
(* A model of three hooks of react-essential-hooks:                        *)
(*   useCustomFetcher      (state isLoading, data, isError, error)         *)
(*   useDebouncedValue     (state debouncedValue, one effect timer)        *)
(*   useDebouncedFunction  (a ref holding a timer handle, a callback)      *)
(* A handler (a render with its effects, a promise continuation, a timer   *)
(* callback) is one atomic action.  The host timer runs a callback no      *)
(* earlier than its delay; the network settles a request at any moment.    *)
(***************************************************************************)
EXTENDS Integers, Sequences, FiniteSets, TLC

VARIABLES
    \* useCustomFetcher
    url,          \* the url prop of the latest render
    isLoading, data, isError, error,   \* the four useState cells
    requests,     \* every fetchData() run, in start order: its position and what the network gave it
    mountedCF,    \* whether the mount effect has run
    urlLog,       \* history: the url prop of every render, in order
    uncaught,     \* whether an error escaped fetchData
    \* useDebouncedValue
    value, delay,     \* the props of the latest render
    debouncedValue,   \* the useState cell
    timerId,          \* the timer handle the latest effect's cleanup closes over
    timersDV,         \* the host's timers, by handle
    lifeDV,           \* "rendered" (effect not yet run), "mounted", "unmounted"
    inputsDV,         \* history: every (value, delay) rendered, and how long it lasted
    stable,           \* history: ms since value or delay last changed
    emitsDV,          \* history: every setDebouncedValue call
    \* useDebouncedFunction
    fn, fnDelay,        \* the props of the latest render (fn, delay)
    debouncedFunction,  \* the memoised callback: the fn and delay it closes over
    timeoutRef,         \* timeoutRef.current
    timersDF,           \* the host's timers, by handle
    mountedDF,          \* whether the component is mounted
    callsDF,            \* history: every call of debouncedFunction
    executedDF          \* history: every execution of fn

varsCF == <<url, isLoading, data, isError, error, requests, mountedCF, urlLog, uncaught>>
varsDV == <<value, delay, debouncedValue, timerId, timersDV, lifeDV, inputsDV, stable, emitsDV>>
varsDF == <<fn, fnDelay, debouncedFunction, timeoutRef, timersDF, mountedDF, callsDF, executedDF>>

vars == <<varsCF, varsDV, varsDF>>

----------------------------------------------------------------------------
\* Bounds and input sets

MaxRenders == 3
MaxChanges == 3
MaxCalls == 2

Urls == {"u1", "u2"}
Statuses == {200, 404, 500}
Bodies == {"b1", "b2"}
NetworkErrors == {"Failed to fetch"}
ParseErrors == {"Unexpected token"}

Values == {"x", "y"}
Delays == {1, 2}
Fns == {"f1", "f2"}
Args == {"a1", "a2"}

null == "null"
undefined == "undefined"

----------------------------------------------------------------------------
\* useCustomFetcher

\* The hook's state as one record, so that the steps of fetchData compose.
HookState ==
    [isLoading |-> isLoading, data |-> data, isError |-> isError,
     error |-> error, requests |-> requests, uncaught |-> uncaught]

Commit(h) ==
    /\ isLoading' = h.isLoading
    /\ data' = h.data
    /\ isError' = h.isError
    /\ error' = h.error
    /\ requests' = h.requests
    /\ uncaught' = h.uncaught

\* fetch()'s Response: ok is true exactly for a 2xx status.
Response(status) == [ok |-> (status >= 200 /\ status <= 299), status |-> status]

NewRequest(u) ==
    [url |-> u, pc |-> "fetch", outcome |-> "pending", status |-> 0,
     body |-> null, thrown |-> ""]

resetKeepsMessage(h) == [h EXCEPT !.isError = FALSE]

resetWithData(h) == [h EXCEPT !.isError = FALSE, !.error = "", !.data = null]

reset(h) == [h EXCEPT !.isError = FALSE, !.error = ""]

\* fetchData up to its first await: reset(); setIsLoading(true); fetch(url)
fetchData(h, u) ==
    LET h1 == reset(h)
        h2 == [h1 EXCEPT !.isLoading = TRUE]
    IN  [h2 EXCEPT !.requests = Append(@, NewRequest(u))]

HttpErrorMessage(res) == "HTTP error! status: " \o ToString(res.status)

catchWithoutMessage(h, message) == [h EXCEPT !.isError = TRUE]

\* catch (err) { setIsError(true); setError(err.message); }
catch(h, message) == [h EXCEPT !.isError = TRUE, !.error = message]

setData(h, body) == [h EXCEPT !.data = body]

\* the statement after the try/catch: setIsLoading(false); the run k is over
setIsLoadingFalse(h, k, outcome) ==
    [h EXCEPT !.isLoading = FALSE,
              !.requests[k].pc = "done",
              !.requests[k].outcome = outcome]

DepsIgnored(prev, next) == TRUE

\* useEffect's dependency array [url]
DepsChanged(prev, next) == prev # next

\* a render with url prop `next` after one with `prev`: the effect runs
\* fetchData when the dependencies changed
useEffect(h, prev, next) ==
    IF DepsChanged(prev, next) THEN fetchData(h, next) ELSE h

\* whether the try block's catch clause receives an error thrown at `where`
Caught(where) == where \in {"fetch", "status", "json"}

ThrowWithoutRelease(h, k, where, outcome, message) ==
    [catch(h, message) EXCEPT !.requests[k].pc = "done",
                              !.requests[k].outcome = outcome]

\* run k throws `message` at `where`: the catch clause and the statement after
\* it, or, were the error not caught, the end of fetchData with the error
Throw(h, k, where, outcome, message) ==
    IF Caught(where)
    THEN setIsLoadingFalse(catch(h, message), k, outcome)
    ELSE [h EXCEPT !.uncaught = TRUE,
                   !.requests[k].pc = "done",
                   !.requests[k].outcome = outcome]

InitCF ==
    /\ url \in Urls
    /\ isLoading = FALSE
    /\ data = null
    /\ isError = FALSE
    /\ error = ""
    /\ requests = <<>>
    /\ mountedCF = FALSE
    /\ urlLog = <<url>>
    /\ uncaught = FALSE

\* the effect of the first render: it always runs
MountCF ==
    /\ ~mountedCF
    /\ mountedCF' = TRUE
    /\ Commit(fetchData(HookState, url))
    /\ UNCHANGED <<url, urlLog>>
    /\ UNCHANGED <<varsDV, varsDF>>

\* the parent renders the component with url prop u
RenderCF(u) ==
    /\ mountedCF
    /\ Len(urlLog) < MaxRenders
    /\ url' = u
    /\ urlLog' = Append(urlLog, u)
    /\ Commit(useEffect(HookState, url, u))
    /\ UNCHANGED mountedCF
    /\ UNCHANGED <<varsDV, varsDF>>

\* await fetch(url) rejects
FetchRejects(k, message) ==
    /\ requests[k].pc = "fetch"
    /\ LET h == [HookState EXCEPT !.requests[k].thrown = message]
       IN  Commit(useEffect(Throw(h, k, "fetch", "network", message), url, url))
    /\ UNCHANGED <<url, mountedCF, urlLog>>
    /\ UNCHANGED <<varsDV, varsDF>>

\* await fetch(url) resolves with a response
FetchResolves(k, status) ==
    /\ requests[k].pc = "fetch"
    /\ LET res == Response(status)
           h == [HookState EXCEPT !.requests[k].status = res.status]
       IN  IF ~res.ok
           THEN Commit(useEffect(
                    Throw(h, k, "status", "http", HttpErrorMessage(res)),
                    url, url))
           ELSE Commit([h EXCEPT !.requests[k].pc = "json"])
    /\ UNCHANGED <<url, mountedCF, urlLog>>
    /\ UNCHANGED <<varsDV, varsDF>>

\* await res.json() resolves with the parsed body
JsonResolves(k, body) ==
    /\ requests[k].pc = "json"
    /\ LET h == [HookState EXCEPT !.requests[k].body = body]
       IN  Commit(useEffect(
               setIsLoadingFalse(setData(h, body), k, "success"),
               url, url))
    /\ UNCHANGED <<url, mountedCF, urlLog>>
    /\ UNCHANGED <<varsDV, varsDF>>

\* await res.json() rejects
JsonRejects(k, message) ==
    /\ requests[k].pc = "json"
    /\ LET h == [HookState EXCEPT !.requests[k].thrown = message]
       IN  Commit(useEffect(Throw(h, k, "json", "parse", message), url, url))
    /\ UNCHANGED <<url, mountedCF, urlLog>>
    /\ UNCHANGED <<varsDV, varsDF>>

NextCF ==
    \/ MountCF
    \/ \E u \in Urls : RenderCF(u)
    \/ \E k \in DOMAIN requests, m \in NetworkErrors : FetchRejects(k, m)
    \/ \E k \in DOMAIN requests, s \in Statuses : FetchResolves(k, s)
    \/ \E k \in DOMAIN requests, b \in Bodies : JsonResolves(k, b)
    \/ \E k \in DOMAIN requests, m \in ParseErrors : JsonRejects(k, m)


----------------------------------------------------------------------------
\* The host's timers (setTimeout, clearTimeout).  A handle is the timer's
\* position in the table; a callback runs once, no earlier than its delay.

NoTimer == 0

\* the table after setTimeout(callback, ms); the handle returned is its length
setTimeout(timers, callback, ms) ==
    Append(timers, [callback |-> callback, left |-> ms, state |-> "pending"])

clearTimeout(timers, id) ==
    IF id \in DOMAIN timers /\ timers[id].state = "pending"
    THEN [timers EXCEPT ![id].state = "cleared", ![id].left = 0]
    ELSE timers

\* whether the host may run timer id's callback now
Due(timers, id) == timers[id].state = "pending" /\ timers[id].left = 0

\* one millisecond passes
TickTimers(timers) ==
    [i \in DOMAIN timers |->
        IF timers[i].state = "pending" /\ timers[i].left > 0
        THEN [timers[i] EXCEPT !.left = @ - 1]
        ELSE timers[i]]

\* elapsed time is counted up to the longest delay: beyond it no timer is early
LongestDelay == CHOOSE d \in Delays : \A e \in Delays : e <= d
Elapse(ms) == IF ms < LongestDelay THEN ms + 1 ELSE ms

----------------------------------------------------------------------------
\* useDebouncedValue

DepsNeverDV(prev, next) == FALSE

\* useEffect's dependency array [value, delay]
DepsChangedDV(prev, next) == prev # next

cleanupNothingDV(timers, id) == timers

\* the effect's cleanup: () => clearTimeout(timerId)
cleanupDV(timers, id) == clearTimeout(timers, id)

\* the effect body for a render with props v, d: arm a timer whose callback
\* sets debouncedValue to v (input is the position of (v, d) in inputsDV)
effectDV(timers, v, d, input) ==
    [timers |-> setTimeout(timers, [value |-> v, input |-> input], d),
     timerId |-> Len(timers) + 1]

useEffectKeepsTimerDV(timers, id, prev, next, input) ==
    IF DepsChangedDV(prev, next)
    THEN effectDV(timers, next[1], next[2], input)
    ELSE [timers |-> timers, timerId |-> id]

\* a render with props next after one with props prev: when the dependencies
\* changed, the previous effect's cleanup and then the effect
useEffectDV(timers, id, prev, next, input) ==
    IF DepsChangedDV(prev, next)
    THEN effectDV(cleanupDV(timers, id), next[1], next[2], input)
    ELSE [timers |-> timers, timerId |-> id]

useStateWithInput(v) == v

\* useState(): the state cell starts without a value, whatever the input
useState(v) == undefined

InitDV ==
    /\ value \in Values
    /\ delay \in Delays
    /\ debouncedValue = useState(value)
    /\ timerId = NoTimer
    /\ timersDV = <<>>
    /\ lifeDV = "rendered"
    /\ inputsDV = <<[value |-> value, delay |-> delay, replaced |-> FALSE, life |-> 0]>>
    /\ stable = 0
    /\ emitsDV = <<>>

\* the effect of the first render: it always runs
MountDV ==
    /\ lifeDV = "rendered"
    /\ lifeDV' = "mounted"
    /\ LET e == effectDV(timersDV, value, delay, Len(inputsDV))
       IN  timersDV' = e.timers /\ timerId' = e.timerId
    /\ UNCHANGED <<value, delay, debouncedValue, inputsDV, stable, emitsDV>>
    /\ UNCHANGED <<varsCF, varsDF>>

\* the parent renders the component with props v, d
RenderDV(v, d) ==
    /\ lifeDV = "mounted"
    /\ Len(inputsDV) < MaxChanges
    /\ value' = v
    /\ delay' = d
    /\ IF <<v, d>> # <<value, delay>>
       THEN /\ inputsDV' = Append(
                   [inputsDV EXCEPT ![Len(inputsDV)].replaced = TRUE,
                                    ![Len(inputsDV)].life = stable],
                   [value |-> v, delay |-> d, replaced |-> FALSE, life |-> 0])
            /\ stable' = 0
       ELSE UNCHANGED <<inputsDV, stable>>
    /\ LET e == useEffectDV(timersDV, timerId, <<value, delay>>, <<v, d>>,
                            Len(inputsDV'))
       IN  timersDV' = e.timers /\ timerId' = e.timerId
    /\ UNCHANGED <<debouncedValue, lifeDV, emitsDV>>
    /\ UNCHANGED <<varsCF, varsDF>>

\* the host runs timer id's callback: setDebouncedValue(value), and the
\* render that follows (a state update of an unmounted component is dropped)
TimerFiresDV(id) ==
    /\ Due(timersDV, id)
    /\ LET cb == timersDV[id].callback
           fired == [timersDV EXCEPT ![id].state = "fired"]
           e == useEffectDV(fired, timerId, <<value, delay>>, <<value, delay>>,
                            Len(inputsDV))
       IN  /\ emitsDV' = Append(emitsDV,
                 [value |-> cb.value, input |-> cb.input,
                  current |-> Len(inputsDV), stable |-> stable, life |-> lifeDV])
           /\ IF lifeDV = "mounted"
              THEN /\ debouncedValue' = cb.value
                   /\ timersDV' = e.timers
                   /\ timerId' = e.timerId
              ELSE /\ timersDV' = fired
                   /\ UNCHANGED <<debouncedValue, timerId>>
    /\ UNCHANGED <<value, delay, lifeDV, inputsDV, stable>>
    /\ UNCHANGED <<varsCF, varsDF>>

\* the component unmounts: the last effect's cleanup runs
UnmountDV ==
    /\ lifeDV = "mounted"
    /\ lifeDV' = "unmounted"
    /\ timersDV' = cleanupDV(timersDV, timerId)
    /\ UNCHANGED <<value, delay, debouncedValue, timerId, inputsDV, stable, emitsDV>>
    /\ UNCHANGED <<varsCF, varsDF>>

TickDV ==
    /\ timersDV' = TickTimers(timersDV)
    /\ stable' = Elapse(stable)
    /\ UNCHANGED <<value, delay, debouncedValue, timerId, lifeDV, inputsDV, emitsDV>>
    /\ UNCHANGED <<varsCF, varsDF>>

NextDV ==
    \/ MountDV
    \/ \E v \in Values, d \in Delays : RenderDV(v, d)
    \/ \E id \in DOMAIN timersDV : TimerFiresDV(id)
    \/ UnmountDV
    \/ TickDV

----------------------------------------------------------------------------
\* useDebouncedFunction

DepsNeverDF(prev, next) == FALSE

\* useCallback's dependency array [fn, delay]
DepsChangedDF(prev, next) == prev # next

\* useCallback: the callback of this render when the dependencies changed,
\* the memoised one otherwise
useCallback(memo, prev, next) ==
    IF DepsChangedDF(prev, next) THEN [fn |-> next[1], delay |-> next[2]] ELSE memo

clearPreviousNever(timers, ref) == timers

\* if (timeoutRef.current) clearTimeout(timeoutRef.current);
clearPrevious(timers, ref) ==
    IF ref # NoTimer THEN clearTimeout(timers, ref) ELSE timers

setTimeoutNoDelay(timers, f, args, ms, call) ==
    setTimeout(timers, [fn |-> f, args |-> args, call |-> call], 0)

\* setTimeout(() => { fn(...args); }, delay)  (call is the position of this
\* call in callsDF)
setTimeoutDF(timers, f, args, ms, call) ==
    setTimeout(timers, [fn |-> f, args |-> args, call |-> call], ms)

InitDF ==
    /\ fn \in Fns
    /\ fnDelay \in Delays
    /\ debouncedFunction = [fn |-> fn, delay |-> fnDelay]
    /\ timeoutRef = NoTimer
    /\ timersDF = <<>>
    /\ mountedDF = TRUE
    /\ callsDF = <<>>
    /\ executedDF = <<>>

\* the parent renders the component with props f, d
RenderDF(f, d) ==
    /\ mountedDF
    /\ fn' = f
    /\ fnDelay' = d
    /\ debouncedFunction' = useCallback(debouncedFunction, <<fn, fnDelay>>, <<f, d>>)
    /\ UNCHANGED <<timeoutRef, timersDF, mountedDF, callsDF, executedDF>>
    /\ UNCHANGED <<varsCF, varsDV>>

CallWithOwnTimerDF(args) ==
    /\ Len(callsDF) < MaxCalls
    /\ LET sameVersion ==
               /\ callsDF # <<>>
               /\ callsDF[Len(callsDF)].fn = debouncedFunction.fn
               /\ callsDF[Len(callsDF)].delay = debouncedFunction.delay
           cleared == IF sameVersion
                      THEN clearPrevious(timersDF, timeoutRef)
                      ELSE timersDF
       IN  /\ timersDF' = setTimeoutDF(cleared, debouncedFunction.fn, args,
                                       debouncedFunction.delay, Len(callsDF) + 1)
           /\ timeoutRef' = Len(cleared) + 1
    /\ callsDF' = Append(
           [k \in DOMAIN callsDF |->
               IF k = Len(callsDF)
               THEN [callsDF[k] EXCEPT !.followed = TRUE, !.gap = callsDF[k].age]
               ELSE callsDF[k]],
           [fn |-> fn, delay |-> fnDelay, args |-> args, age |-> 0,
            followed |-> FALSE, gap |-> 0])
    /\ UNCHANGED <<fn, fnDelay, debouncedFunction, mountedDF, executedDF>>
    /\ UNCHANGED <<varsCF, varsDV>>

\* debouncedFunction(args), the callback of the latest render
CallDF(args) ==
    /\ Len(callsDF) < MaxCalls
    /\ LET cleared == clearPrevious(timersDF, timeoutRef)
       IN  /\ timersDF' = setTimeoutDF(cleared, debouncedFunction.fn, args,
                                       debouncedFunction.delay, Len(callsDF) + 1)
           /\ timeoutRef' = Len(cleared) + 1
    /\ callsDF' = Append(
           [k \in DOMAIN callsDF |->
               IF k = Len(callsDF)
               THEN [callsDF[k] EXCEPT !.followed = TRUE, !.gap = callsDF[k].age]
               ELSE callsDF[k]],
           [fn |-> fn, delay |-> fnDelay, args |-> args, age |-> 0,
            followed |-> FALSE, gap |-> 0])
    /\ UNCHANGED <<fn, fnDelay, debouncedFunction, mountedDF, executedDF>>
    /\ UNCHANGED <<varsCF, varsDV>>

\* the host runs timer id's callback: fn(...args)
TimerFiresDF(id) ==
    /\ Due(timersDF, id)
    /\ timersDF' = [timersDF EXCEPT ![id].state = "fired"]
    /\ LET cb == timersDF[id].callback
       IN  executedDF' = Append(executedDF,
               [fn |-> cb.fn, args |-> cb.args, call |-> cb.call,
                age |-> callsDF[cb.call].age, mounted |-> mountedDF])
    /\ UNCHANGED <<fn, fnDelay, debouncedFunction, timeoutRef, mountedDF, callsDF>>
    /\ UNCHANGED <<varsCF, varsDV>>

UnmountClearsDF ==
    /\ mountedDF
    /\ mountedDF' = FALSE
    /\ timersDF' = clearPrevious(timersDF, timeoutRef)
    /\ UNCHANGED <<fn, fnDelay, debouncedFunction, timeoutRef, callsDF, executedDF>>
    /\ UNCHANGED <<varsCF, varsDV>>

\* the component unmounts: the hook registers no cleanup
UnmountDF ==
    /\ mountedDF
    /\ mountedDF' = FALSE
    /\ UNCHANGED <<fn, fnDelay, debouncedFunction, timeoutRef, timersDF, callsDF, executedDF>>
    /\ UNCHANGED <<varsCF, varsDV>>

\* one millisecond passes.  A call's age is counted while it is the latest
\* call or its timer is pending: afterwards nothing depends on it.
TickDF ==
    /\ timersDF' = TickTimers(timersDF)
    /\ callsDF' =
          [k \in DOMAIN callsDF |->
              IF \/ k = Len(callsDF)
                 \/ \E id \in DOMAIN timersDF :
                       timersDF[id].callback.call = k /\ timersDF[id].state = "pending"
              THEN [callsDF[k] EXCEPT !.age = Elapse(@)]
              ELSE callsDF[k]]
    /\ UNCHANGED <<fn, fnDelay, debouncedFunction, timeoutRef, mountedDF, executedDF>>
    /\ UNCHANGED <<varsCF, varsDV>>

NextDF ==
    \/ \E f \in Fns, d \in Delays : RenderDF(f, d)
    \/ \E a \in Args : CallDF(a)
    \/ \E id \in DOMAIN timersDF : TimerFiresDF(id)
    \/ UnmountDF
    \/ TickDF

----------------------------------------------------------------------------
\* Specifications: one hook instance each; the other hooks are not rendered.

IdleCF ==
    /\ url = "u1" /\ isLoading = FALSE /\ data = null /\ isError = FALSE
    /\ error = "" /\ requests = <<>> /\ mountedCF = FALSE /\ urlLog = <<>>
    /\ uncaught = FALSE

IdleDV ==
    /\ value = undefined /\ delay = 1 /\ debouncedValue = undefined
    /\ timerId = NoTimer /\ timersDV = <<>> /\ lifeDV = "unmounted"
    /\ inputsDV = <<>> /\ stable = 0 /\ emitsDV = <<>>

IdleDF ==
    /\ fn = "f1" /\ fnDelay = 1 /\ debouncedFunction = [fn |-> "f1", delay |-> 1]
    /\ timeoutRef = NoTimer /\ timersDF = <<>> /\ mountedDF = FALSE
    /\ callsDF = <<>> /\ executedDF = <<>>

InitOnlyCF == InitCF /\ IdleDV /\ IdleDF
InitOnlyDV == IdleCF /\ InitDV /\ IdleDF
InitOnlyDF == IdleCF /\ IdleDV /\ InitDF

SpecCF == InitOnlyCF /\ [][NextCF]_vars

SpecDV == InitOnlyDV /\ [][NextDV]_vars

SpecDF == InitOnlyDF /\ [][NextDF]_vars

\* the host runs a due callback eventually, time passes, and React runs the
\* effect of a committed render
FairSpecDV ==
    /\ SpecDV
    /\ WF_vars(MountDV)
    /\ WF_vars(TickDV)
    /\ WF_vars(\E id \in DOMAIN timersDV : TimerFiresDV(id))

FairSpecDF ==
    /\ SpecDF
    /\ WF_vars(TickDF)
    /\ WF_vars(\E id \in DOMAIN timersDF : TimerFiresDF(id))

\* a promise the hook awaits (fetch(url), res.json()) settles
Settles(k) ==
    \/ \E m \in NetworkErrors : FetchRejects(k, m)
    \/ \E st \in Statuses : FetchResolves(k, st)
    \/ \E b \in Bodies : JsonResolves(k, b)
    \/ \E m \in ParseErrors : JsonRejects(k, m)

\* every request eventually settles
FairSpecCF ==
    /\ SpecCF
    /\ WF_vars(\E k \in DOMAIN requests : Settles(k))

----------------------------------------------------------------------------
\* Claims about useCustomFetcher

RECURSIVE Runs(_)
\* a sequence with every run of equal consecutive elements cut to one element
Runs(log) ==
    IF Len(log) <= 1 THEN log
    ELSE LET rest == Runs(Tail(log))
         IN  IF Head(log) = Head(rest) THEN rest ELSE <<Head(log)>> \o rest

Settled(k) == requests[k].pc = "done"
AllSettled == \A k \in DOMAIN requests : Settled(k)
Failed(r) == r.pc = "done" /\ r.outcome \in {"http", "network", "parse"}
Last == requests[Len(requests)]
\* run k ends in this step
Ends(k) == requests[k].pc # "done" /\ requests'[k].pc = "done"

\* C5: one request is started on mount and one for every change of url to a
\* different value, each for the url of that render; a render with an
\* unchanged url (the hook's own re-renders included) starts none, and a
\* failed request is not retried: the urls of the requests started are the
\* url props rendered so far with repetitions of the same url cut out.
C5_OneRequestPerUrlChange ==
    IF mountedCF
    THEN /\ [k \in DOMAIN requests |-> requests[k].url] = Runs(urlLog)
         /\ Last.url = url
    ELSE requests = <<>>

C5_Witness ==
    /\ mountedCF
    /\ Len(urlLog) = 3
    /\ urlLog[2] = urlLog[1]
    /\ urlLog[3] # urlLog[2]
    /\ Len(requests) = 2
    /\ Failed(requests[1])
    /\ AllSettled

C6_Expected(r) ==
    IF r.outcome = "http"
    THEN "HTTP error! status: " \o ToString(r.status)
    ELSE r.thrown

C6_Step ==
    /\ \A k \in DOMAIN requests :
          (Ends(k) /\ requests'[k].outcome # "success")
              => (isError' /\ error' = C6_Expected(requests'[k]))
    /\ \A k \in DOMAIN requests' :
          (requests'[k].status # 0 /\ requests'[k].status \notin 200..299)
              => /\ requests'[k].pc = "done"
                 /\ requests'[k].outcome = "http"
                 /\ requests'[k].body = null
    /\ ~uncaught'

\* C6: a response with a non-2xx status is never parsed and its request ends
\* with isError = true and error = "HTTP error! status: <status>"; a rejected
\* fetch and a rejected json() end with isError = true and error = the message
\* thrown; no error escapes fetchData.
C6_FailureSetsError == [][C6_Step]_vars

C6_Witness ==
    /\ \E k \in DOMAIN requests :
          requests[k].outcome = "http" /\ requests[k].status = 404
    /\ \E k \in DOMAIN requests : requests[k].outcome = "network"
    /\ \E k \in DOMAIN requests : requests[k].outcome = "parse"
    /\ isError
    /\ error = "HTTP error! status: 404"

\* C7: once the mount effect has run, isLoading is true exactly when some
\* request the hook started has not settled.
C7_LoadingIffInFlight ==
    mountedCF => (isLoading <=> ~AllSettled)

\* C8: once every request has settled and the request for the current url
\* succeeded, data is the parsed body of that request's response.
C8_DataOfCurrentUrl ==
    (mountedCF /\ AllSettled /\ Last.outcome = "success")
        => data = Last.body

\* C9: once every request has settled, isError is true exactly when the
\* request for the current url failed, and error is that request's message,
\* or "" when it succeeded.
C9_ErrorOfCurrentUrl ==
    (mountedCF /\ AllSettled)
        => /\ isError <=> Failed(Last)
           /\ error = IF Failed(Last) THEN C6_Expected(Last) ELSE ""

C10_Step ==
    \/ data' = data
    \/ \E k \in DOMAIN requests :
          /\ Ends(k)
          /\ requests'[k].outcome = "success"
          /\ requests[k].pc = "json"
          /\ requests'[k].status \in 200..299
          /\ data' = requests'[k].body

\* C10: data is null at first and only a request that succeeds changes it,
\* to the body parsed: a request's start and a request's failure leave data
\* as it was, and data is non-null only after a request got a 2xx response
\* and a parsed body.
C10_DataOnlyOnSuccess ==
    /\ data = null
    /\ [][C10_Step]_vars
    /\ [](data # null =>
            \E k \in DOMAIN requests :
                /\ requests[k].outcome = "success"
                /\ requests[k].status \in 200..299
                /\ requests[k].body = data)

C10_Witness ==
    /\ Len(requests) = 3
    /\ requests[1].outcome = "success"
    /\ Failed(requests[2])
    /\ requests[3].pc = "fetch"
    /\ data = requests[1].body
    /\ data # null

\* C11: whenever every request the hook started has settled, isLoading is
\* false; when every request eventually settles, isLoading is eventually
\* false for good (the url changes being finitely many).
C11_LoadingReleased ==
    /\ [](AllSettled => ~isLoading)
    /\ <>[](~isLoading)

C11_Witness ==
    /\ mountedCF
    /\ Len(requests) = 3
    /\ AllSettled
    /\ requests[1].outcome = "network"
    /\ requests[2].outcome = "http"
    /\ requests[3].outcome = "parse"
    /\ ~isLoading

\* a request starts in this step
Starts == Len(requests') > Len(requests)
\* a request fails in this step
Fails == \E k \in DOMAIN requests : Ends(k) /\ requests'[k].outcome # "success"
\* a request succeeds in this step
Succeeds == \E k \in DOMAIN requests : Ends(k) /\ requests'[k].outcome = "success"

C12_Step ==
    /\ Starts => (~isError' /\ error' = "" /\ isLoading' /\ data' = data)
    /\ (~isError /\ error = "" /\ ~Fails) => (~isError' /\ error' = "")
    /\ ~Succeeds => data' = data

\* C12: right after a request starts (on mount or on a change of url)
\* isError = false, error = "" and isLoading = true, and the data of the
\* previous url is still in place; isError and error keep these values until
\* a request fails, and data stays until a request succeeds.
C12_StartClearsError == [][C12_Step]_vars

C12_Witness ==
    /\ Len(requests) = 3
    /\ requests[1].outcome = "success"
    /\ requests[2].outcome = "http"
    /\ requests[3].pc = "fetch"
    /\ isLoading
    /\ ~isError
    /\ error = ""
    /\ data = requests[1].body

----------------------------------------------------------------------------
\* Claims about useDebouncedFunction

\* the executions of fn made for call k
ExecutedFor(k) == {e \in DOMAIN executedDF : executedDF[e].call = k}
\* the timer armed by call k was cleared
Cancelled(k) ==
    \E id \in DOMAIN timersDF :
        timersDF[id].callback.call = k /\ timersDF[id].state = "cleared"

\* C1: when a call of debouncedFunction is followed by another less than
\* delay ms later, fn is never executed for the earlier call.
C1_EarlierCallNeverExecutes ==
    \A k \in DOMAIN callsDF :
        (callsDF[k].followed /\ callsDF[k].gap < callsDF[k].delay)
            => ExecutedFor(k) = {}

C1_Witness ==
    /\ Len(callsDF) = 2
    /\ callsDF[1].gap > 0
    /\ callsDF[1].gap < callsDF[1].delay
    /\ callsDF[1].args # callsDF[2].args
    /\ Cancelled(1)
    /\ ExecutedFor(2) # {}

\* debouncedFunction was not called again for delay ms after call k: the
\* next call, if any, came more than delay ms later
Quiet(k) ==
    IF callsDF[k].followed
    THEN callsDF[k].gap > callsDF[k].delay
    ELSE callsDF[k].age >= callsDF[k].delay

\* fn is executed for call k at most once, with the fn and the arguments of
\* that call and no earlier than delay ms after it
ExecutedProperly(k) ==
    /\ Cardinality(ExecutedFor(k)) <= 1
    /\ \A e \in ExecutedFor(k) :
          /\ executedDF[e].fn = callsDF[k].fn
          /\ executedDF[e].args = callsDF[k].args
          /\ executedDF[e].age >= callsDF[k].delay

\* C2 as stated: a call that is not followed by another call for delay ms
\* is executed (its timer is never cancelled), once, with its arguments and
\* no earlier than delay ms after it.
C2_QuietCallIsExecuted ==
    \A k \in DOMAIN callsDF :
        Quiet(k) => (~Cancelled(k) /\ ExecutedProperly(k))

\* every execution is proper; only a later call cancels a call, and a
\* cancelled call is not executed
C2_Safe ==
    \A k \in DOMAIN callsDF :
        /\ ExecutedProperly(k)
        /\ Cancelled(k) => (callsDF[k].followed /\ ExecutedFor(k) = {})

\* C2, amended: a call that is not followed by another call before the host
\* has run its timer callback is executed exactly once, with the arguments
\* of that call and no earlier than delay ms after it; only a later call
\* cancels it, and a cancelled call is not executed.  (Calls are never
\* removed from callsDF, so the second conjunct says that call k leads to a
\* later call or to its execution.)
C2_LastCallIsExecutedOnce ==
    /\ []C2_Safe
    /\ \A k \in 1..MaxCalls :
          []<>(Len(callsDF) # k \/ ExecutedFor(k) # {})

C2_Witness ==
    /\ Len(callsDF) = 2
    /\ callsDF[1].gap >= callsDF[1].delay
    /\ ExecutedFor(1) # {}
    /\ ExecutedFor(2) # {}
    /\ callsDF[1].args # callsDF[2].args

PendingDF == {id \in DOMAIN timersDF : timersDF[id].state = "pending"}

\* C14: at most one timer is pending, whatever re-renders happened between
\* the calls: it is the one timeoutRef holds, armed by the latest call.
C14_OnePendingExecution ==
    /\ Cardinality(PendingDF) <= 1
    /\ \A id \in PendingDF :
          /\ id = timeoutRef
          /\ timersDF[id].callback.call = Len(callsDF)

C14_Witness ==
    /\ Len(callsDF) = 2
    /\ callsDF[1].fn # callsDF[2].fn
    /\ callsDF[1].delay # callsDF[2].delay
    /\ callsDF[1].gap < callsDF[1].delay
    /\ Cancelled(1)
    /\ PendingDF = {2}

C16_Step ==
    /\ (\E id \in PendingDF : timersDF'[id].state = "cleared")
          => Len(callsDF') > Len(callsDF)
    /\ (mountedDF' # mountedDF \/ <<fn', fnDelay'>> # <<fn, fnDelay>>)
          => (timersDF' = timersDF /\ timeoutRef' = timeoutRef)

\* C16: a pending timer is cleared only by a step that is a call of
\* debouncedFunction; a re-render with another fn or delay and the unmount
\* leave the timers as they are, so fn can be executed after the unmount.
C16_OnlyCallsCancel == [][C16_Step]_vars

C16_Witness ==
    /\ Len(callsDF) = 1
    /\ Len(executedDF) = 1
    /\ ~executedDF[1].mounted
    /\ executedDF[1].fn # fn
    /\ executedDF[1].age = callsDF[1].delay

\* C17: the callback of every timer carries the fn and the arguments of the
\* render in which debouncedFunction was called, and runs no earlier than
\* that render's delay after the call, whatever fn and delay the hook has
\* been rendered with since.
C17_BoundAtCallTime ==
    /\ \A id \in DOMAIN timersDF :
          LET c == callsDF[timersDF[id].callback.call]
          IN  /\ timersDF[id].callback.fn = c.fn
              /\ timersDF[id].callback.args = c.args
              /\ id \in PendingDF => timersDF[id].left + c.age >= c.delay
    /\ \A e \in DOMAIN executedDF :
          LET c == callsDF[executedDF[e].call]
          IN  /\ executedDF[e].fn = c.fn
              /\ executedDF[e].age >= c.delay

C17_Witness ==
    \E e \in DOMAIN executedDF :
        /\ ~executedDF[e].mounted
        /\ executedDF[e].fn # fn
        /\ callsDF[executedDF[e].call].delay > fnDelay
        /\ executedDF[e].age >= callsDF[executedDF[e].call].delay

----------------------------------------------------------------------------
\* Claims about useDebouncedValue

\* C3: setDebouncedValue(v) happens only at a moment when the props have
\* been (v, delay) for the last delay ms without a change, by the timer armed
\* for them; a (value, delay) replaced less than delay ms after it appeared
\* is never emitted; debouncedValue holds the last value emitted.
C3_EmitsOnlyAfterQuiet ==
    /\ \A e \in DOMAIN emitsDV :
          LET now == inputsDV[emitsDV[e].current]
          IN  /\ emitsDV[e].value = now.value
              /\ emitsDV[e].stable >= now.delay
              /\ emitsDV[e].input = emitsDV[e].current
    /\ \A k \in DOMAIN inputsDV :
          (inputsDV[k].replaced /\ inputsDV[k].life < inputsDV[k].delay)
              => \A e \in DOMAIN emitsDV : emitsDV[e].input # k
    /\ debouncedValue =
          IF emitsDV = <<>> THEN undefined ELSE emitsDV[Len(emitsDV)].value

C3_Witness ==
    /\ Len(inputsDV) = 3
    /\ inputsDV[1].life < inputsDV[1].delay
    /\ inputsDV[1].value # inputsDV[2].value
    /\ inputsDV[2].life >= inputsDV[2].delay
    /\ Len(emitsDV) = 2
    /\ debouncedValue = value

C4_Stays ==
    debouncedValue' # debouncedValue
        => (value # debouncedValue /\ debouncedValue' = value)

\* C4: while the component is mounted and the props stay (v, delay),
\* debouncedValue eventually equals v; debouncedValue changes only when it
\* differs from the input value, and then to the input value.
C4_EventuallyEmitsInput ==
    /\ \A v \in Values, d \in Delays :
          (lifeDV # "unmounted" /\ value = v /\ delay = d)
              ~> (debouncedValue = v \/ value # v \/ delay # d
                  \/ lifeDV = "unmounted")
    /\ [][C4_Stays]_vars

C4_Witness ==
    /\ lifeDV = "mounted"
    /\ Len(inputsDV) = 2
    /\ inputsDV[1].value # inputsDV[2].value
    /\ Len(emitsDV) = 2
    /\ debouncedValue = value

PendingDV == {id \in DOMAIN timersDV : timersDV[id].state = "pending"}

C13_Inv ==
    /\ Cardinality(PendingDV) <= 1
    /\ \A id \in PendingDV :
          /\ id = timerId
          /\ timersDV[id].callback.input = Len(inputsDV)
          /\ lifeDV = "mounted"
    /\ \A e \in DOMAIN emitsDV :
          /\ emitsDV[e].life = "mounted"
          /\ emitsDV[e].input = emitsDV[e].current

\* C13: at most one timer is pending, it is the one armed for the current
\* (value, delay), and none is pending after unmount; so no timer armed for
\* an older (value, delay) runs, none runs after unmount, and debouncedValue
\* does not change once the component is unmounted.
C13_OnePendingTimer ==
    /\ []C13_Inv
    /\ [][lifeDV = "unmounted" => debouncedValue' = debouncedValue]_vars

C13_Witness ==
    /\ lifeDV = "unmounted"
    /\ Len(timersDV) = 3
    /\ timersDV[1].state = "cleared"
    /\ timersDV[2].state = "fired"
    /\ timersDV[3].state = "cleared"
    /\ Len(emitsDV) = 1
    /\ debouncedValue = inputsDV[2].value

\* C15: while no timer has fired, debouncedValue is undefined; the timer
\* armed at mount sets debouncedValue to the initial input, no earlier than
\* delay ms after mount and only while the input is still the initial one.
C15_UndefinedUntilFirstEmit ==
    /\ emitsDV = <<>> => (debouncedValue = undefined /\ debouncedValue # value)
    /\ \A e \in DOMAIN emitsDV :
          emitsDV[e].input = 1 =>
              /\ e = 1
              /\ emitsDV[e].value = inputsDV[1].value
              /\ emitsDV[e].stable >= inputsDV[1].delay
              /\ emitsDV[e].current = 1

C15_Witness ==
    /\ lifeDV = "mounted"
    /\ emitsDV = <<>>
    /\ Len(inputsDV) = 1
    /\ stable >= inputsDV[1].delay
    /\ debouncedValue = undefined

====
